---- MODULE Spec2Model ----
(***************************************************************************)
(* A model of the impulse physics core: Body integration (body.rs), the    *)
(* force generators (force.rs), PhysicsWorld::tick (world.rs) and the      *)
(* contact resolver (contact.rs).                                          *)
(*                                                                         *)
(* Real (f32, lib.rs:10) is modelled as an exact rational <<n, d>> in      *)
(* lowest terms with d > 0.  An operation whose result is not rational     *)
(* (powf, the square root of magnitude) or not a number (normalize of the  *)
(* zero vector) has no value in the model.  The initial states of every    *)
(* specification hold dyadic values, inverse masses for which the          *)
(* divisions of contact resolution are exact in f32, and spring ends that  *)
(* lie along an axis from the body, so that normalize is exact.            *)
(* Vector3 is a triple of Reals.                                           *)
(***************************************************************************)
EXTENDS Integers, Sequences, FiniteSets, TLC

(***************************************************************************)
(* Real arithmetic                                                         *)
(***************************************************************************)
Abs(x) == IF x < 0 THEN -x ELSE x

RECURSIVE Gcd(_, _)
Gcd(a, b) == IF b = 0 THEN a ELSE Gcd(b, a % b)

Rat(n, d) ==
    LET g == Gcd(Abs(n), Abs(d))
        s == IF d < 0 THEN -1 ELSE 1
    IN  <<(s * n) \div g, (s * d) \div g>>

R(n) == <<n, 1>>

RAdd(a, b) == Rat(a[1] * b[2] + b[1] * a[2], a[2] * b[2])

RNeg(a) == <<-a[1], a[2]>>

RSub(a, b) == RAdd(a, RNeg(b))

RMul(a, b) == Rat(a[1] * b[1], a[2] * b[2])

RDiv(a, b) == Rat(a[1] * b[2], a[2] * b[1])

RRecip(a) == RDiv(R(1), a)

RLt(a, b) == a[1] * b[2] < b[1] * a[2]

RLe(a, b) == a[1] * b[2] <= b[1] * a[2]

RGt(a, b) == RLt(b, a)

RAbs(a) == <<Abs(a[1]), a[2]>>

\* x raised to a whole, non-negative power
RECURSIVE PowN(_, _)
PowN(x, n) == IF n = 0 THEN R(1) ELSE RMul(x, PowN(x, n - 1))

RECURSIVE IPow(_, _)
IPow(k, q) == IF q = 0 THEN 1 ELSE k * IPow(k, q - 1)

\* the q-th root of a whole number, defined on the q-th powers
IRoot(n, q) == CHOOSE k \in 0..n : IPow(k, q) = n

\* f32::powf with the exponent y = p / q: the q-th root of x to the p, and
\* its reciprocal for a negative exponent; defined where that is rational
Powf(x, y) ==
    LET whole == PowN(x, Abs(y[1]))
        root == IF y[2] = 1 THEN whole
                ELSE <<IRoot(whole[1], y[2]), IRoot(whole[2], y[2])>>
    IN  IF y[1] < 0 THEN RRecip(root) ELSE root

\* square root, defined on the squares of rationals
ISqrt(n) == CHOOSE k \in 0..n : k * k = n

Sqrt(a) == <<ISqrt(a[1]), ISqrt(a[2])>>

(***************************************************************************)
(* Vector3                                                                 *)
(***************************************************************************)
Vec(x, y, z) == <<R(x), R(y), R(z)>>

VZero == Vec(0, 0, 0)

VAdd(u, v) == <<RAdd(u[1], v[1]), RAdd(u[2], v[2]), RAdd(u[3], v[3])>>

VSub(u, v) == <<RSub(u[1], v[1]), RSub(u[2], v[2]), RSub(u[3], v[3])>>

VScale(v, k) == <<RMul(v[1], k), RMul(v[2], k), RMul(v[3], k)>>

Dot(u, v) == RAdd(RAdd(RMul(u[1], v[1]), RMul(u[2], v[2])), RMul(u[3], v[3]))

Magnitude(v) == Sqrt(Dot(v, v))

\* defined on non-zero vectors only
Normalize(v) == VScale(v, RRecip(Magnitude(v)))

(***************************************************************************)
(* Body (body.rs)                                                          *)
(***************************************************************************)
mass(body) == RRecip(body.inverse_mass)

has_infinite_mass(body) == body.inverse_mass = R(0)

add_force(body, force) ==
    [body EXCEPT !.force_accumulator = VAdd(@, force)]

\* an early return that lets inverse mass zero through
IntegrateSkipsNegativeOnly(body) == RLt(body.inverse_mass, R(0))

\* the early return of integrate: nothing is touched, the assertion is not reached
IntegrateSkips(body) == RLe(body.inverse_mass, R(0))

\* assert!(duration > 0.0) fails
IntegratePanics(body, duration) ==
    ~IntegrateSkips(body) /\ ~RGt(duration, R(0))

\* a variant that updates the velocity before the position
integrate_velocity_first(body, duration) ==
    IF IntegrateSkips(body) THEN body
    ELSE LET acceleration == VAdd(body.acceleration,
                                  VScale(body.force_accumulator, body.inverse_mass))
             drag == Powf(duration, body.damping)
             velocity == VAdd(body.velocity, VScale(VScale(acceleration, duration), drag))
         IN  [body EXCEPT !.position = VAdd(@, VScale(velocity, duration)),
                          !.velocity = velocity,
                          !.force_accumulator = VZero]

integrate(body, duration) ==
    IF IntegrateSkips(body) THEN body
    ELSE LET acceleration ==
                 VAdd(body.acceleration,
                      VScale(body.force_accumulator, body.inverse_mass))
             drag == Powf(duration, body.damping)
         IN  [body EXCEPT
                !.position = VAdd(@, VScale(body.velocity, duration)),
                !.velocity = VAdd(@, VScale(VScale(acceleration, duration), drag)),
                !.force_accumulator = VZero]

(***************************************************************************)
(* Arena (generational_arena): a collection is a function from its live    *)
(* handles; get(handle) is Some exactly for those.                         *)
(***************************************************************************)
Resolves(arena, handle) == handle \in DOMAIN arena

Remove(arena, handle) == [h \in DOMAIN arena \ {handle} |-> arena[h]]

(***************************************************************************)
(* Force generators (force.rs).  Each apply returns the body collection    *)
(* after the call.                                                         *)
(***************************************************************************)
Gravity(force) == [kind |-> "Gravity", force |-> force]

Drag(k1, k2) == [kind |-> "Drag", k1 |-> k1, k2 |-> k2]

Buoyancy(max_depth, volume, water_height, liquid_density) ==
    [kind |-> "Buoyancy", max_depth |-> max_depth, volume |-> volume,
     water_height |-> water_height, liquid_density |-> liquid_density]

Spring(end, k, rest) ==
    [kind |-> "Spring", end_body_handle |-> end,
     spring_constant |-> k, rest_length |-> rest]

AnchoredSpring(anchor, k, rest) ==
    [kind |-> "AnchoredSpring", anchor |-> anchor,
     spring_constant |-> k, rest_length |-> rest]

Bungee(end, k, rest) ==
    [kind |-> "Bungee", end_body_handle |-> end,
     spring_constant |-> k, rest_length |-> rest]

AnchoredBungee(anchor, k, rest) ==
    [kind |-> "AnchoredBungee", anchor |-> anchor,
     spring_constant |-> k, rest_length |-> rest]

GravityApply(g, body_handle, bs) ==
    IF ~Resolves(bs, body_handle) THEN bs
    ELSE IF has_infinite_mass(bs[body_handle]) THEN bs
    ELSE LET force == VScale(g.force, mass(bs[body_handle]))
         IN  [bs EXCEPT ![body_handle] = add_force(@, force)]

\* no guard on the velocity: normalize is taken of a zero velocity as well
DragApply(g, body_handle, bs) ==
    IF ~Resolves(bs, body_handle) THEN bs
    ELSE LET speed == Magnitude(bs[body_handle].velocity)
             drag_coefficient == RAdd(RMul(g.k1, speed), RMul(g.k2, PowN(speed, 2)))
             force == VScale(Normalize(bs[body_handle].velocity),
                             RNeg(drag_coefficient))
         IN  [bs EXCEPT ![body_handle] = add_force(@, force)]

BuoyancyApply(g, body_handle, bs) ==
    IF ~Resolves(bs, body_handle) THEN bs
    ELSE LET depth == bs[body_handle].position[2]
             out_of_water == RLe(RAdd(g.water_height, g.max_depth), depth)
             at_max_depth == RLe(depth, RSub(g.water_height, g.max_depth))
             y == IF at_max_depth THEN RMul(g.liquid_density, g.volume)
                  ELSE RMul(RDiv(RMul(RMul(g.liquid_density, g.volume),
                                      RSub(RSub(depth, g.max_depth), g.water_height)),
                                 R(2)),
                            g.max_depth)
         IN  IF out_of_water THEN bs
             ELSE [bs EXCEPT ![body_handle] = add_force(@, <<R(0), y, R(0)>>)]

\* the force of a spring stretched between position and other
SpringForce(g, position, other) ==
    LET force == VSub(position, other)
        magnitude == RMul(RAbs(RSub(Magnitude(force), g.rest_length)),
                          g.spring_constant)
    IN  VScale(Normalize(force), RNeg(magnitude))

SpringApply(g, body_handle, bs) ==
    IF ~Resolves(bs, g.end_body_handle) THEN bs
    ELSE IF ~Resolves(bs, body_handle) THEN bs
    ELSE LET force == SpringForce(g, bs[body_handle].position,
                                  bs[g.end_body_handle].position)
         IN  [bs EXCEPT ![body_handle] = add_force(@, force)]

AnchoredSpringApply(g, body_handle, bs) ==
    IF ~Resolves(bs, body_handle) THEN bs
    ELSE LET force == SpringForce(g, bs[body_handle].position, g.anchor)
         IN  [bs EXCEPT ![body_handle] = add_force(@, force)]

\* the body after a bungee between its position and other has acted on it
BungeePull(g, body, other) ==
    LET force == VSub(body.position, other)
        magnitude == Magnitude(force)
    IN  IF RLe(magnitude, g.rest_length) THEN body
        ELSE LET m == RMul(RSub(g.rest_length, magnitude), g.spring_constant)
             IN  add_force(body, VScale(Normalize(force), RNeg(m)))

BungeeApply(g, body_handle, bs) ==
    IF ~Resolves(bs, g.end_body_handle) THEN bs
    ELSE IF ~Resolves(bs, body_handle) THEN bs
    ELSE [bs EXCEPT ![body_handle] =
              BungeePull(g, @, bs[g.end_body_handle].position)]

AnchoredBungeeApply(g, body_handle, bs) ==
    IF ~Resolves(bs, body_handle) THEN bs
    ELSE [bs EXCEPT ![body_handle] = BungeePull(g, @, g.anchor)]

\* ForceGenerator::apply, dispatched on the variant
apply(g, body_handle, bs) ==
    CASE g.kind = "Gravity"        -> GravityApply(g, body_handle, bs)
      [] g.kind = "Drag"           -> DragApply(g, body_handle, bs)
      [] g.kind = "Buoyancy"       -> BuoyancyApply(g, body_handle, bs)
      [] g.kind = "Spring"         -> SpringApply(g, body_handle, bs)
      [] g.kind = "AnchoredSpring" -> AnchoredSpringApply(g, body_handle, bs)
      [] g.kind = "Bungee"         -> BungeeApply(g, body_handle, bs)
      [] g.kind = "AnchoredBungee" -> AnchoredBungeeApply(g, body_handle, bs)

ForceRegistration(generator_handle, handles) ==
    [generator_handle |-> generator_handle, bodies |-> handles]

(***************************************************************************)
(* Contact (contact.rs)                                                    *)
(***************************************************************************)
Contact(body_handle, other_body_handle, restitution, normal, penetration) ==
    [body_handle |-> body_handle, other_body_handle |-> other_body_handle,
     restitution |-> restitution, normal |-> normal,
     penetration |-> penetration]

\* one of the two expect("Failed to lookup body!") of separating_velocity fails
LookupPanics(c, bs) ==
    ~Resolves(bs, c.body_handle) \/ ~Resolves(bs, c.other_body_handle)

\* the velocities added where they are to be subtracted
separating_velocity_of_sum(c, bs) ==
    Dot(VAdd(bs[c.body_handle].velocity, bs[c.other_body_handle].velocity),
        c.normal)

separating_velocity(c, bs) ==
    Dot(VSub(bs[c.body_handle].velocity, bs[c.other_body_handle].velocity),
        c.normal)

impulse_required(c, bs) == RGt(separating_velocity(c, bs), R(0))

resolve_velocity(c, bs, duration) ==
    IF ~impulse_required(c, bs) THEN bs
    ELSE
    LET sv == separating_velocity(c, bs)
        body_acceleration == bs[c.body_handle].acceleration
        body_inverse_mass == bs[c.body_handle].inverse_mass
        other_body_inverse_mass == bs[c.other_body_handle].inverse_mass
        bounce == RMul(RNeg(sv), c.restitution)
        acceleration_caused == RMul(Dot(body_acceleration, c.normal), duration)
        reduced == RAdd(bounce, RMul(c.restitution, acceleration_caused))
        new_separating_velocity ==
            IF RLt(acceleration_caused, R(0))
            THEN (IF RLt(reduced, R(0)) THEN R(0) ELSE reduced)
            ELSE bounce
        delta_velocity == RSub(new_separating_velocity, sv)
        total_inverse_mass == RAdd(body_inverse_mass, other_body_inverse_mass)
    IN  IF RLe(total_inverse_mass, R(0)) THEN bs
        ELSE
        LET impulse == RDiv(delta_velocity, total_inverse_mass)
            impulse_per_inverse_mass == VScale(c.normal, impulse)
            first == [bs EXCEPT ![c.body_handle].velocity =
                        VAdd(@, VScale(impulse_per_inverse_mass,
                                       bs[c.body_handle].inverse_mass))]
        IN  [first EXCEPT ![c.other_body_handle].velocity =
                VAdd(@, VScale(impulse_per_inverse_mass,
                               RNeg(first[c.other_body_handle].inverse_mass)))]

\* the handle the second lookup of resolve_interpenetration uses (contact.rs:166)
PenetrationOtherHandle(c) == c.body_handle

resolve_interpenetration(c, bs, duration) ==
    IF RLe(c.penetration, R(0)) THEN bs
    ELSE
    LET body == bs[c.body_handle]
        other_body == bs[PenetrationOtherHandle(c)]
        total_inverse_mass == RAdd(body.inverse_mass, other_body.inverse_mass)
    IN  IF RLe(total_inverse_mass, R(0)) THEN bs
        ELSE
        LET move_per_inverse_mass ==
                VScale(c.normal, RDiv(c.penetration, total_inverse_mass))
            first == [bs EXCEPT ![c.body_handle].position =
                        VAdd(@, VScale(move_per_inverse_mass,
                                       bs[c.body_handle].inverse_mass))]
        IN  [first EXCEPT ![c.other_body_handle].position =
                VAdd(@, VScale(move_per_inverse_mass,
                               RNeg(first[c.other_body_handle].inverse_mass)))]

resolve(c, bs, duration) ==
    resolve_interpenetration(c, resolve_velocity(c, bs, duration), duration)

(***************************************************************************)
(* ContactResolver (contact.rs): the scan of one iteration.  Indices are   *)
(* those of the code, from 0; the result is <<max_index, max velocity>>.   *)
(***************************************************************************)
RECURSIVE ScanFrom(_, _, _, _)
ScanFrom(cs, bs, index, max) ==
    IF index = Len(cs) THEN max
    ELSE LET velocity == separating_velocity(cs[index + 1], bs)
         IN  ScanFrom(cs, bs, index + 1,
                      IF RGt(velocity, max[2]) THEN <<index, velocity>> ELSE max)

Scan(cs, bs) == ScanFrom(cs, bs, 0, <<0, R(0)>>)

ScanPanics(cs, bs) == \E i \in 1..Len(cs) : LookupPanics(cs[i], bs)

\* a loop condition that is off by one
LoopContinuesAtCap(r) == r.iterations_used <= r.iterations

LoopContinues(r) == r.iterations_used < r.iterations

ScanBreaks(cs, bs) == Scan(cs, bs)[1] = Len(cs)

(***************************************************************************)
(* The simulation: a PhysicsWorld, one ContactResolver shared by every     *)
(* call, and a host that ticks the world, resolves batches of contacts and *)
(* removes bodies and generators between the calls.                        *)
(***************************************************************************)
VARIABLES
    bodies,            \* PhysicsWorld.bodies
    force_generators,  \* PhysicsWorld.force_generators
    registrations,     \* PhysicsWorld.registrations
    resolver,          \* ContactResolver {iterations, iterations_used}
    pc,                \* where the running call stands; "idle" between calls,
                       \* "assert_failed" and "lookup_failed" after a panic
    duration,          \* argument of the running call
    contacts,          \* argument of the running resolve_contacts
    ri,                \* tick: index of the registration being processed
    bi,                \* tick: index into that registration's bodies
    cursor,            \* tick: bodies.iter_mut() has yielded the handles below
    initial,           \* history: the bodies as constructed
    before,            \* history: the bodies when the running call was entered
    applied,           \* history: the apply calls of the running tick
    integrated,        \* history: integrate calls per body in the running tick
    resolutions,       \* history: Contact::resolve calls of the running call
    scanned,           \* history: <<max_index, max velocity, the separating
                       \* velocities>> of the last scan that led to a resolution
    calls              \* history: number of tick and resolve_contacts calls

vars == <<bodies, force_generators, registrations, resolver, pc, duration,
          contacts, ri, bi, cursor, initial, before, applied, integrated,
          resolutions, scanned, calls>>

world == <<bodies, force_generators, registrations>>
tickFrame == <<ri, bi, cursor>>
tickHistory == <<applied, integrated>>
resolveHistory == <<resolutions, scanned>>

\* the calls (tick, resolve_contacts) the host makes
MaxCalls == 2
\* the largest iteration cap a resolver is configured with
MaxIterations == 2

BodyHandles == {1, 2, 3}
GeneratorHandles == {1, 2, 3, 4, 5}

\* the handles the host removes
RemovableBodies == {2}
RemovableGenerators == {2}

NewBody(y, vy, ay, inverse_mass) ==
    [position |-> Vec(0, y, 0), velocity |-> Vec(0, vy, 0),
     acceleration |-> Vec(0, ay, 0), damping |-> R(1),
     inverse_mass |-> inverse_mass, force_accumulator |-> VZero]

\* the bodies a host may insert under each handle
BodyChoices(h) ==
    CASE h = 1 -> {NewBody(20, -2, 0, R(1)), NewBody(20, -2, 0, Rat(1, 2))}
      [] h = 2 -> {NewBody(4, 2, -1, R(1)), NewBody(4, 2, -1, R(0))}
      [] h = 3 -> {NewBody(-20, 1, -1, R(0))}

Durations == {R(0), R(1), R(2)}

Normals == {Vec(0, 1, 0), Vec(0, -1, 0)}

\* the contacts a host may hand to the resolver
ContactChoices ==
    {Contact(pair[1], pair[2], R(1), n, R(2)) :
        pair \in {<<1, 3>>, <<3, 1>>, <<1, 2>>}, n \in Normals}

Batches ==
    {<<>>} \cup {<<c>> : c \in ContactChoices}
           \cup {<<Contact(1, 3, R(1), n, R(2)), Contact(2, 1, R(1), n, R(0))>> :
                     n \in Normals}

\* the inverse masses of any two bodies add up to 0 or to a power of two, so
\* that the divisions of contact resolution are exact in f32
ExactTotals(bs) ==
    \A h, k \in DOMAIN bs :
        h # k => RAdd(bs[h].inverse_mass, bs[k].inverse_mass)
                     \in {R(0), Rat(1, 2), R(1), R(2), R(4)}

Init ==
    /\ bodies \in {bs \in [BodyHandles -> UNION {BodyChoices(h) : h \in BodyHandles}] :
                      /\ \A h \in BodyHandles : bs[h] \in BodyChoices(h)
                      /\ ExactTotals(bs)}
    /\ force_generators =
         (1 :> Gravity(Vec(0, -2, 0)) @@ 2 :> Spring(2, R(1), R(2))
            @@ 3 :> Bungee(2, R(1), R(1)) @@ 4 :> Drag(Rat(1, 2), Rat(1, 4))
            @@ 5 :> Buoyancy(R(2), R(1), R(4), R(1)))
    /\ registrations =
         <<ForceRegistration(1, <<2, 1, 3>>), ForceRegistration(2, <<1, 3>>),
           ForceRegistration(3, <<1, 3>>), ForceRegistration(4, <<3>>),
           ForceRegistration(5, <<2>>)>>
    /\ resolver \in [iterations : 0..MaxIterations, iterations_used : {0}]
    /\ pc = "idle"
    /\ duration = R(0)
    /\ contacts = <<>>
    /\ ri = 1 /\ bi = 1 /\ cursor = 1
    /\ initial = bodies
    /\ before = bodies
    /\ applied = <<>>
    /\ integrated = [h \in BodyHandles |-> 0]
    /\ resolutions = 0
    /\ scanned = <<0, R(0), <<>>>>
    /\ calls = 0

(***************************************************************************)
(* The host, between calls                                                 *)
(***************************************************************************)
RemoveBody(h) ==
    /\ pc = "idle"
    /\ Resolves(bodies, h)
    /\ bodies' = Remove(bodies, h)
    /\ UNCHANGED <<force_generators, registrations, resolver, pc, duration,
                   contacts, tickFrame, initial, before, tickHistory,
                   resolveHistory, calls>>

RemoveGenerator(g) ==
    /\ pc = "idle"
    /\ Resolves(force_generators, g)
    /\ force_generators' = Remove(force_generators, g)
    /\ UNCHANGED <<bodies, registrations, resolver, pc, duration, contacts,
                   tickFrame, initial, before, tickHistory, resolveHistory,
                   calls>>

(***************************************************************************)
(* PhysicsWorld::tick (world.rs), one loop step per action                 *)
(***************************************************************************)
TickCall(d) ==
    /\ pc = "idle"
    /\ calls < MaxCalls
    /\ pc' = "apply"
    /\ duration' = d
    /\ ri' = 1 /\ bi' = 1 /\ cursor' = 1
    /\ before' = bodies
    /\ applied' = <<>>
    /\ integrated' = [h \in BodyHandles |-> 0]
    /\ calls' = calls + 1
    /\ UNCHANGED <<world, resolver, contacts, initial, resolveHistory>>

\* the outer loop has run through every registration
RegistrationsDone(r) == r > Len(registrations)

\* None => continue, for the generator handle
TickSkipRegistration ==
    /\ pc = "apply"
    /\ ~RegistrationsDone(ri)
    /\ ~Resolves(force_generators, registrations[ri].generator_handle)
    /\ ri' = ri + 1 /\ bi' = 1
    /\ UNCHANGED <<world, resolver, pc, duration, contacts, cursor, initial,
                   before, tickHistory, resolveHistory, calls>>

\* the inner loop has run through the registration's bodies
TickNextRegistration ==
    /\ pc = "apply"
    /\ ~RegistrationsDone(ri)
    /\ Resolves(force_generators, registrations[ri].generator_handle)
    /\ bi > Len(registrations[ri].bodies)
    /\ ri' = ri + 1 /\ bi' = 1
    /\ UNCHANGED <<world, resolver, pc, duration, contacts, cursor, initial,
                   before, tickHistory, resolveHistory, calls>>

\* break in the place of continue: the rest of the registration is dropped
BreakAtMissingBody(i, n) == n + 1

\* the inner loop's position after None => continue
AfterMissingBody(i, n) == i + 1

\* None => continue, for a body handle
TickSkipBody ==
    /\ pc = "apply"
    /\ ~RegistrationsDone(ri)
    /\ Resolves(force_generators, registrations[ri].generator_handle)
    /\ bi <= Len(registrations[ri].bodies)
    /\ ~Resolves(bodies, registrations[ri].bodies[bi])
    /\ bi' = AfterMissingBody(bi, Len(registrations[ri].bodies))
    /\ UNCHANGED <<world, resolver, pc, duration, contacts, ri, cursor, initial,
                   before, tickHistory, resolveHistory, calls>>

TickApply ==
    /\ pc = "apply"
    /\ ~RegistrationsDone(ri)
    /\ Resolves(force_generators, registrations[ri].generator_handle)
    /\ bi <= Len(registrations[ri].bodies)
    /\ LET h == registrations[ri].bodies[bi]
           g == force_generators[registrations[ri].generator_handle]
       IN  /\ Resolves(bodies, h)
           /\ bodies' = apply(g, h, bodies)
           /\ applied' = Append(applied,
                  [registration |-> ri, body |-> h,
                   force |-> VSub(bodies'[h].force_accumulator,
                                  bodies[h].force_accumulator)])
    /\ bi' = bi + 1
    /\ UNCHANGED <<force_generators, registrations, resolver, pc, duration,
                   contacts, ri, cursor, initial, before, integrated,
                   resolveHistory, calls>>

TickStartIntegrate ==
    /\ pc = "apply"
    /\ RegistrationsDone(ri)
    /\ pc' = "integrate"
    /\ cursor' = 1
    /\ UNCHANGED <<world, resolver, duration, contacts, ri, bi, initial, before,
                   tickHistory, resolveHistory, calls>>

\* the handles bodies.iter_mut() has still to yield
Remaining(c) == {h \in DOMAIN bodies : h >= c}

NextBody(c) == CHOOSE h \in Remaining(c) : \A k \in Remaining(c) : h <= k

TickIntegrate ==
    /\ pc = "integrate"
    /\ Remaining(cursor) # {}
    /\ LET h == NextBody(cursor)
       IN  /\ ~IntegratePanics(bodies[h], duration)
           /\ bodies' = [bodies EXCEPT ![h] = integrate(@, duration)]
           /\ integrated' = [integrated EXCEPT ![h] = @ + 1]
           /\ cursor' = h + 1
    /\ UNCHANGED <<force_generators, registrations, resolver, pc, duration,
                   contacts, ri, bi, initial, before, applied, resolveHistory,
                   calls>>

TickPanic ==
    /\ pc = "integrate"
    /\ Remaining(cursor) # {}
    /\ IntegratePanics(bodies[NextBody(cursor)], duration)
    /\ pc' = "assert_failed"
    /\ UNCHANGED <<world, resolver, duration, contacts, tickFrame, initial,
                   before, tickHistory, resolveHistory, calls>>

TickReturn ==
    /\ pc = "integrate"
    /\ Remaining(cursor) = {}
    /\ pc' = "idle"
    /\ UNCHANGED <<world, resolver, duration, contacts, tickFrame, initial,
                   before, tickHistory, resolveHistory, calls>>

(***************************************************************************)
(* ContactResolver::resolve_contacts (contact.rs), one iteration per       *)
(* action                                                                  *)
(***************************************************************************)
ResolveCall(cs, d) ==
    /\ pc = "idle"
    /\ calls < MaxCalls
    /\ pc' = "resolve"
    /\ contacts' = cs
    /\ duration' = d
    /\ before' = bodies
    /\ resolutions' = 0
    /\ scanned' = <<0, R(0), <<>>>>
    /\ calls' = calls + 1
    /\ UNCHANGED <<world, resolver, tickFrame, initial, tickHistory>>

ResolvePanic ==
    /\ pc = "resolve"
    /\ LoopContinues(resolver)
    /\ ScanPanics(contacts, bodies)
    /\ pc' = "lookup_failed"
    /\ UNCHANGED <<world, resolver, duration, contacts, tickFrame, initial,
                   before, tickHistory, resolveHistory, calls>>

ResolveIteration ==
    /\ pc = "resolve"
    /\ LoopContinues(resolver)
    /\ ~ScanPanics(contacts, bodies)
    /\ ~ScanBreaks(contacts, bodies)
    /\ LET max == Scan(contacts, bodies)
       IN  /\ bodies' = resolve(contacts[max[1] + 1], bodies, duration)
           /\ scanned' = <<max[1], max[2],
                           [i \in 1..Len(contacts) |->
                               separating_velocity(contacts[i], bodies)]>>
    /\ resolver' = [resolver EXCEPT !.iterations_used = @ + 1]
    /\ resolutions' = resolutions + 1
    /\ UNCHANGED <<force_generators, registrations, pc, duration, contacts,
                   tickFrame, initial, before, tickHistory, calls>>

ResolveReturn ==
    /\ pc = "resolve"
    /\ \/ ~LoopContinues(resolver)
       \/ /\ ~ScanPanics(contacts, bodies)
          /\ ScanBreaks(contacts, bodies)
    /\ pc' = "idle"
    /\ UNCHANGED <<world, resolver, duration, contacts, tickFrame, initial,
                   before, tickHistory, resolveHistory, calls>>

Next ==
    \/ \E h \in RemovableBodies : RemoveBody(h)
    \/ \E g \in RemovableGenerators : RemoveGenerator(g)
    \/ \E d \in Durations : TickCall(d)
    \/ TickSkipRegistration
    \/ TickNextRegistration
    \/ TickSkipBody
    \/ TickApply
    \/ TickStartIntegrate
    \/ TickIntegrate
    \/ TickPanic
    \/ TickReturn
    \/ \E cs \in Batches, d \in {R(1)} : ResolveCall(cs, d)
    \/ ResolvePanic
    \/ ResolveIteration
    \/ ResolveReturn

Spec == Init /\ [][Next]_vars

(***************************************************************************)
(* One contact resolved on its own: Contact::resolve on a pair of bodies,  *)
(* its two steps taken one after the other.                                *)
(***************************************************************************)
PairBody(velocity, acceleration, inverse_mass) ==
    [position |-> Vec(0, 0, 0), velocity |-> velocity,
     acceleration |-> acceleration, damping |-> R(1),
     inverse_mass |-> inverse_mass, force_accumulator |-> VZero]

PairInverseMasses == {R(0), Rat(1, 2), R(1), R(2)}

PairBodies ==
    [{1} -> {PairBody(v, a, m) :
                v \in {Vec(0, -2, 0), Vec(0, 0, 0), Vec(0, 3, 0), Vec(1, 2, 0)},
                a \in {Vec(0, 0, 0), Vec(0, -1, 0)}, m \in PairInverseMasses}]
    \X
    [{2} -> {PairBody(v, Vec(0, 0, 0), m) :
                v \in {Vec(0, 2, 0), Vec(0, 0, 0), Vec(0, -3, 0)},
                m \in PairInverseMasses}]

PairContacts ==
    {Contact(pair[1], pair[2], e, n, p) :
        pair \in {<<1, 2>>, <<2, 1>>},
        e \in {R(0), Rat(1, 2), R(1)},
        n \in {Vec(0, 1, 0), Vec(0, -1, 0), Vec(1, 0, 0)},
        p \in {R(-1), R(0), R(1), R(3)}}

InitContact ==
    /\ \E pair \in PairBodies : bodies = pair[1] @@ pair[2]
    /\ ExactTotals(bodies)
    /\ \E c \in PairContacts : contacts = <<c>>
    /\ force_generators = <<>>
    /\ registrations = <<>>
    /\ resolver = [iterations |-> 0, iterations_used |-> 0]
    /\ pc = "resolve_velocity"
    /\ duration = R(1)
    /\ ri = 1 /\ bi = 1 /\ cursor = 1
    /\ initial = bodies
    /\ before = bodies
    /\ applied = <<>>
    /\ integrated = [h \in {1, 2} |-> 0]
    /\ resolutions = 0
    /\ scanned = <<0, R(0), <<>>>>
    /\ calls = 0

ContactResolveVelocity ==
    /\ pc = "resolve_velocity"
    /\ bodies' = resolve_velocity(contacts[1], bodies, duration)
    /\ pc' = "resolve_interpenetration"
    /\ UNCHANGED <<force_generators, registrations, resolver, duration, contacts,
                   tickFrame, initial, before, tickHistory, resolveHistory, calls>>

ContactResolveInterpenetration ==
    /\ pc = "resolve_interpenetration"
    /\ bodies' = resolve_interpenetration(contacts[1], bodies, duration)
    /\ pc' = "resolved"
    /\ UNCHANGED <<force_generators, registrations, resolver, duration, contacts,
                   tickFrame, initial, before, tickHistory, resolveHistory, calls>>

NextContact == ContactResolveVelocity \/ ContactResolveInterpenetration

SpecContact == InitContact /\ [][NextContact]_vars

(***************************************************************************)
(* One Body::integrate call on a body on its own                           *)
(***************************************************************************)
LoneBodies ==
    {[position |-> x, velocity |-> v, acceleration |-> a, damping |-> n,
      inverse_mass |-> m, force_accumulator |-> f] :
        x \in {Vec(0, 0, 0), Vec(1, -2, 3)},
        v \in {Vec(0, 0, 0), Vec(1, -2, 0), Vec(0, 3, 0)},
        a \in {Vec(0, 0, 0), <<R(0), Rat(-39, 4), R(0)>>},
        n \in {R(0), Rat(1, 2), R(1), R(2)},
        m \in {R(0), Rat(1, 2), R(1), R(2)},
        f \in {Vec(0, 0, 0), Vec(0, 4, 0), Vec(2, 0, -2)}}

\* with the dampings of LoneBodies, powf of each positive one is rational
LoneDurations == {R(-1), R(0), Rat(1, 4), R(1), R(4)}

InitIntegrate ==
    /\ \E body \in LoneBodies : bodies = (1 :> body)
    /\ duration \in LoneDurations
    /\ force_generators = <<>>
    /\ registrations = <<>>
    /\ resolver = [iterations |-> 0, iterations_used |-> 0]
    /\ pc = "integrate"
    /\ contacts = <<>>
    /\ ri = 1 /\ bi = 1 /\ cursor = 1
    /\ initial = bodies
    /\ before = bodies
    /\ applied = <<>>
    /\ integrated = (1 :> 0)
    /\ resolutions = 0
    /\ scanned = <<0, R(0), <<>>>>
    /\ calls = 0

\* integrate returns, through the early return or at its end
IntegrateReturn ==
    /\ pc = "integrate"
    /\ ~IntegratePanics(bodies[1], duration)
    /\ bodies' = [bodies EXCEPT ![1] = integrate(@, duration)]
    /\ integrated' = [integrated EXCEPT ![1] = @ + 1]
    /\ pc' = "returned"
    /\ UNCHANGED <<force_generators, registrations, resolver, duration, contacts,
                   tickFrame, initial, before, applied, resolveHistory, calls>>

\* the assertion on duration fails
IntegrateAssertFails ==
    /\ pc = "integrate"
    /\ IntegratePanics(bodies[1], duration)
    /\ pc' = "assert_failed"
    /\ UNCHANGED <<world, resolver, duration, contacts, tickFrame, initial,
                   before, tickHistory, resolveHistory, calls>>

NextIntegrate == IntegrateReturn \/ IntegrateAssertFails

SpecIntegrate == InitIntegrate /\ [][NextIntegrate]_vars

(***************************************************************************)
(* One apply call of a Bungee or an AnchoredBungee on body 1; the other    *)
(* end is body 2 or the anchor                                             *)
(***************************************************************************)
BungeePositions == {Vec(0, 0, 0), Vec(0, 3, 0), Vec(3, 4, 0), Vec(0, -4, 0), Vec(2, 0, 0)}

BungeeEnds == {Vec(0, 0, 0), Vec(0, 1, 0), Vec(3, 0, 0)}

\* q lies along an axis from p: at most one component of p - q is not zero
AlongAxis(p, q) ==
    LET d == VSub(p, q) IN Cardinality({i \in 1..3 : d[i] # R(0)}) <= 1

BungeeChoices ==
    {Bungee(2, k, rest) : k \in {Rat(1, 2), R(1), R(2)}, rest \in {R(0), R(1), R(2), R(5)}}
    \cup {AnchoredBungee(q, k, rest) :
            q \in BungeeEnds, k \in {Rat(1, 2), R(1), R(2)},
            rest \in {R(0), R(1), R(2), R(5)}}

\* the position of the other end of generator g
OtherEnd(g, bs) ==
    IF g.kind = "Bungee" THEN bs[g.end_body_handle].position ELSE g.anchor

InitBungee ==
    /\ \E g \in BungeeChoices : force_generators = (1 :> g)
    /\ \E p \in BungeePositions, q \in BungeeEnds, f \in {Vec(0, 0, 0), Vec(0, 1, 0)} :
          LET body == [NewBody(0, 0, 0, R(1)) EXCEPT !.position = p,
                                                    !.force_accumulator = f]
              other == [NewBody(0, 0, 0, R(1)) EXCEPT !.position = q]
          IN  bodies = IF force_generators[1].kind = "Bungee"
                       THEN (1 :> body @@ 2 :> other)
                       ELSE (1 :> body)
    /\ AlongAxis(bodies[1].position, OtherEnd(force_generators[1], bodies))
    /\ registrations = <<ForceRegistration(1, <<1>>)>>
    /\ resolver = [iterations |-> 0, iterations_used |-> 0]
    /\ pc = "bungee_apply"
    /\ duration = R(1)
    /\ contacts = <<>>
    /\ ri = 1 /\ bi = 1 /\ cursor = 1
    /\ initial = bodies
    /\ before = bodies
    /\ applied = <<>>
    /\ integrated = [h \in DOMAIN bodies |-> 0]
    /\ resolutions = 0
    /\ scanned = <<0, R(0), <<>>>>
    /\ calls = 0

\* the call returns: force was added to body 1, or the bungee is slack
BungeeApplyCall ==
    /\ pc = "bungee_apply"
    /\ force_generators[1].kind = "Bungee"
    /\ bodies' = apply(force_generators[1], 1, bodies)
    /\ pc' = "bungee_applied"
    /\ UNCHANGED <<force_generators, registrations, resolver, duration, contacts,
                   tickFrame, initial, before, tickHistory, resolveHistory, calls>>

AnchoredBungeeApplyCall ==
    /\ pc = "bungee_apply"
    /\ force_generators[1].kind = "AnchoredBungee"
    /\ bodies' = apply(force_generators[1], 1, bodies)
    /\ pc' = "bungee_applied"
    /\ UNCHANGED <<force_generators, registrations, resolver, duration, contacts,
                   tickFrame, initial, before, tickHistory, resolveHistory, calls>>

NextBungee == BungeeApplyCall \/ AnchoredBungeeApplyCall

SpecBungee == InitBungee /\ [][NextBungee]_vars

(***************************************************************************)
(* Quantities the properties are stated in                                 *)
(***************************************************************************)
\* the force one apply of generator g adds to body h of the collection bs
ForceOf(g, h, bs) ==
    VSub(apply(g, h, bs)[h].force_accumulator, bs[h].force_accumulator)

\* the number of times handle h stands among the first k of handles
RECURSIVE Occurrences(_, _, _)
Occurrences(handles, h, k) ==
    IF k = 0 THEN 0
    ELSE Occurrences(handles, h, k - 1) + (IF handles[k] = h THEN 1 ELSE 0)

\* the sum of the forces of the generators registered against h, one term per
\* registration of h, over the first i registrations, on the collection bs
RECURSIVE SumOfForces(_, _, _)
SumOfForces(h, bs, i) ==
    IF i = 0 THEN VZero
    ELSE LET r == registrations[i]
             n == Occurrences(r.bodies, h, Len(r.bodies))
         IN  VAdd(SumOfForces(h, bs, i - 1),
                  IF n > 0 /\ Resolves(force_generators, r.generator_handle)
                  THEN VScale(ForceOf(force_generators[r.generator_handle], h, bs),
                              R(n))
                  ELSE VZero)

\* the apply calls a tick has to make: one per registration with a live
\* generator and per live handle among its bodies
RECURSIVE AppliesDue(_)
AppliesDue(i) ==
    IF i = 0 THEN 0
    ELSE AppliesDue(i - 1) +
         (IF Resolves(force_generators, registrations[i].generator_handle)
          THEN Cardinality({k \in 1..Len(registrations[i].bodies) :
                               Resolves(bodies, registrations[i].bodies[k])})
          ELSE 0)

RECURSIVE VSum(_)
VSum(forces) ==
    IF forces = <<>> THEN VZero ELSE VAdd(Head(forces), VSum(Tail(forces)))

Entries(r, h) ==
    {k \in 1..Len(applied) : applied[k].registration = r /\ applied[k].body = h}

(***************************************************************************)
(* C1: in a tick with duration > 0 no body is integrated while the         *)
(* registrations are being processed, an integrate call happens only once  *)
(* every apply call of the tick has been made, when the integration loop   *)
(* ends every live body has been integrated exactly once, and a body       *)
(* enters its integrate call with a force accumulator equal to the sum of  *)
(* the forces of all the generators registered against it.                 *)
(***************************************************************************)
C1_IntegrateOnceAfterAllForces ==
    /\ \A h \in BodyHandles : integrated[h] <= 1
    /\ pc = "apply" => \A h \in BodyHandles : integrated[h] = 0
    /\ (pc = "integrate" /\ RGt(duration, R(0))) =>
          /\ Len(applied) = AppliesDue(Len(registrations))
          /\ Remaining(cursor) = {} => \A h \in DOMAIN bodies : integrated[h] = 1
          /\ \A h \in Remaining(cursor) :
                /\ integrated[h] = 0
                /\ bodies[h].force_accumulator =
                      SumOfForces(h, before, Len(registrations))

(***************************************************************************)
(* C2: a body that integrate has returned for holds a zero force           *)
(* accumulator, whatever its inverse mass and whatever force it had        *)
(* accumulated.                                                            *)
(***************************************************************************)
C2_AccumulatorZeroAfterIntegrate ==
    pc = "integrate" =>
        \A h \in DOMAIN bodies :
            integrated[h] = 1 => bodies[h].force_accumulator = VZero

(***************************************************************************)
(* C3: a body of inverse mass zero keeps the position and the velocity it  *)
(* was constructed with, through every apply, integrate, tick and contact  *)
(* resolution.                                                             *)
(***************************************************************************)
C3_InfiniteMassImmovable ==
    \A h \in DOMAIN bodies :
        has_infinite_mass(initial[h]) =>
            /\ bodies[h].inverse_mass = initial[h].inverse_mass
            /\ bodies[h].position = initial[h].position
            /\ bodies[h].velocity = initial[h].velocity

\* an immovable body that has a velocity and an acceleration has been
\* integrated with a force accumulated, and has then been the body of a
\* resolved contact that changed the velocity of the other participant
C3_Witness ==
    /\ pc = "resolve" /\ resolutions >= 1
    /\ LET c == contacts[scanned[1] + 1]
       IN  /\ Resolves(bodies, c.body_handle)
           /\ has_infinite_mass(bodies[c.body_handle])
           /\ bodies[c.body_handle].velocity # VZero
           /\ bodies[c.body_handle].acceleration # VZero
           /\ integrated[c.body_handle] = 1
           /\ bodies[c.body_handle].force_accumulator # VZero
           /\ bodies[c.other_body_handle].velocity #
                 before[c.other_body_handle].velocity

(***************************************************************************)
(* C4: a tick with duration > 0 after removals does not fail; when its     *)
(* registrations have been processed, every live body has received, from   *)
(* each registration whose generator resolves and whose Spring or Bungee   *)
(* end body (if it has one) resolves, the generator's force once per       *)
(* occurrence of its handle, stale handles of the same registration        *)
(* notwithstanding, and nothing from any other registration.               *)
(***************************************************************************)
\* the generator of registration i acts: it resolves, and so does its end body
Acts(i) ==
    LET handle == registrations[i].generator_handle
    IN  /\ Resolves(force_generators, handle)
        /\ force_generators[handle].kind \in {"Spring", "Bungee"} =>
               Resolves(bodies, force_generators[handle].end_body_handle)

C4_StaleHandlesAreSkipped ==
    /\ RGt(duration, R(0)) => pc # "assert_failed"
    /\ pc \in {"apply", "integrate"} =>
          \A k \in 1..Len(applied) :
              ~Acts(applied[k].registration) => applied[k].force = VZero
    /\ (pc = "integrate" /\ cursor = 1) =>
          \A i \in 1..Len(registrations), h \in DOMAIN bodies :
              LET r == registrations[i]
                  n == Occurrences(r.bodies, h, Len(r.bodies))
              IN  /\ Resolves(force_generators, r.generator_handle) =>
                         Cardinality(Entries(i, h)) = n
                  /\ ~Resolves(force_generators, r.generator_handle) =>
                         Entries(i, h) = {}
                  /\ (Acts(i) /\ n > 0) =>
                         \A k \in Entries(i, h) :
                             applied[k].force =
                                 ForceOf(force_generators[r.generator_handle],
                                         h, before)
    /\ (pc = "integrate" /\ cursor = 1) =>
          \A h \in DOMAIN bodies :
              bodies[h].force_accumulator =
                  VAdd(before[h].force_accumulator,
                       VSum([k \in 1..Len(applied) |->
                               IF applied[k].body = h THEN applied[k].force
                               ELSE VZero]))

\* body 2 and the Spring generator have been removed; a tick has processed
\* its registrations: the body after the stale handle of the first
\* registration has received gravity, and the Bungee whose end body is gone
\* has been applied to a live body without adding a force
C4_Witness ==
    /\ pc = "integrate" /\ cursor = 1 /\ RGt(duration, R(0))
    /\ \E i \in 1..Len(registrations) :
          ~Resolves(force_generators, registrations[i].generator_handle)
    /\ \E i \in 1..Len(registrations), k \in 1..Len(applied) :
          /\ ~Resolves(bodies, registrations[i].bodies[1])
          /\ applied[k].registration = i
          /\ applied[k].body = registrations[i].bodies[2]
          /\ applied[k].force # VZero
    /\ \E k \in 1..Len(applied) :
          LET g == force_generators[registrations[applied[k].registration].generator_handle]
          IN  /\ g.kind = "Bungee"
              /\ ~Resolves(bodies, g.end_body_handle)
              /\ applied[k].force = VZero

(***************************************************************************)
(* C5: resolve_contacts never fails on a contact whose body_handle or      *)
(* other_body_handle no longer resolves: the call does not panic on the    *)
(* lookup.                                                                 *)
(***************************************************************************)
C5_StaleContactIsSilent == pc # "lookup_failed"

(***************************************************************************)
(* C6: a call of resolve_contacts makes at most `iterations` calls of      *)
(* Contact::resolve, and iterations_used <= iterations in every state,     *)
(* during and after the call; each resolution of the call uses up one of   *)
(* the iterations that are left.                                           *)
(***************************************************************************)
C6_IterationsBounded ==
    /\ resolver.iterations_used <= resolver.iterations
    /\ resolutions <= resolver.iterations
    /\ resolutions <= resolver.iterations_used

\* the cap has stopped a call on a batch of two contacts after MaxIterations
\* resolutions, while a contact still has a velocity that asks for an impulse
C6_Witness ==
    /\ pc = "resolve" /\ Len(contacts) = 2
    /\ resolver.iterations = MaxIterations
    /\ resolutions = resolver.iterations
    /\ ~LoopContinues(resolver)
    /\ ~ScanPanics(contacts, bodies)
    /\ \E i \in 1..Len(contacts) : impulse_required(contacts[i], bodies)

(***************************************************************************)
(* C7: resolve_contacts resolves a contact and counts an iteration only    *)
(* when the scan at the start of the iteration found a contact of the      *)
(* batch whose separating velocity requires resolution; otherwise the      *)
(* call has returned.                                                      *)
(***************************************************************************)
C7_EarlyTermination ==
    (pc = "resolve" /\ resolutions >= 1) => RGt(scanned[2], R(0))

(***************************************************************************)
(* C8: velocity resolution of a contact whose separating velocity is > 0   *)
(* at entry leaves the velocities of both participants unchanged.          *)
(***************************************************************************)
C8_SeparatingContactUntouched ==
    (pc = "resolve_interpenetration"
        /\ RGt(separating_velocity(contacts[1], before), R(0))) =>
        \A h \in DOMAIN bodies : bodies[h].velocity = before[h].velocity

(***************************************************************************)
(* C9: with restitution 1, equal non-zero inverse masses, no acceleration  *)
(* and velocities +v and -v along the normal (v > 0) for the body and the  *)
(* other body, velocity resolution leaves the body with -v and the other   *)
(* body with +v along the normal: the two velocities are swapped.          *)
(***************************************************************************)
HeadOn(c, bs) ==
    LET body == bs[c.body_handle]
        other == bs[c.other_body_handle]
        v == Dot(body.velocity, c.normal)
    IN  /\ c.restitution = R(1)
        /\ body.inverse_mass = other.inverse_mass
        /\ RGt(body.inverse_mass, R(0))
        /\ body.acceleration = VZero /\ other.acceleration = VZero
        /\ RGt(v, R(0))
        /\ body.velocity = VScale(c.normal, v)
        /\ other.velocity = VScale(c.normal, RNeg(v))

C9_ElasticSwap ==
    (pc = "resolve_interpenetration" /\ HeadOn(contacts[1], before)) =>
        LET c == contacts[1]
            v == Dot(before[c.body_handle].velocity, c.normal)
        IN  /\ bodies[c.body_handle].velocity = VScale(c.normal, RNeg(v))
            /\ bodies[c.other_body_handle].velocity = VScale(c.normal, v)
            /\ bodies[c.body_handle].velocity = before[c.other_body_handle].velocity
            /\ bodies[c.other_body_handle].velocity = before[c.body_handle].velocity

\* a head-on pair of inverse mass 2 each has been through velocity resolution
C9_Witness ==
    /\ pc = "resolve_interpenetration"
    /\ HeadOn(contacts[1], before)
    /\ before[contacts[1].body_handle].inverse_mass = R(2)
    /\ bodies[contacts[1].body_handle].velocity #
          before[contacts[1].body_handle].velocity

(***************************************************************************)
(* C10: interpenetration resolution of a contact with penetration p > 0    *)
(* between a body of inverse mass zero and one of inverse mass > 0 moves   *)
(* the finite-mass participant by p along the normal (+normal for the      *)
(* contact's body, -normal for the other body) and leaves the position of  *)
(* the other participant as it was.                                        *)
(***************************************************************************)
C10_FiniteBodyMovesFullPenetration ==
    LET c == contacts[1]
        body == before[c.body_handle]
        other == before[c.other_body_handle]
        move == VScale(c.normal, c.penetration)
    IN  (pc = "resolved" /\ RGt(c.penetration, R(0))) =>
            /\ (RGt(body.inverse_mass, R(0)) /\ has_infinite_mass(other)) =>
                  /\ bodies[c.body_handle].position = VAdd(body.position, move)
                  /\ bodies[c.other_body_handle].position = other.position
            /\ (has_infinite_mass(body) /\ RGt(other.inverse_mass, R(0))) =>
                  /\ bodies[c.other_body_handle].position = VSub(other.position, move)
                  /\ bodies[c.body_handle].position = body.position

(***************************************************************************)
(* C11: integrate called with duration <= 0 fails its assertion for every  *)
(* body, whatever the inverse mass; it never returns.                      *)
(***************************************************************************)
C11_NonPositiveDurationFails ==
    (pc # "integrate" /\ RLe(duration, R(0))) => pc = "assert_failed"

(***************************************************************************)
(* C12: for a body with inverse_mass > 0 and a duration dt > 0, integrate  *)
(* leaves position = position0 + velocity0 * dt, with the velocity held    *)
(* before the call, whatever the acceleration and the accumulated force;   *)
(* and with zero acceleration, zero accumulator and damping 1 the velocity *)
(* after the call is velocity0.                                            *)
(***************************************************************************)
C12_PositionFromOldVelocity ==
    (pc = "returned" /\ RGt(before[1].inverse_mass, R(0)) /\ RGt(duration, R(0))) =>
        /\ bodies[1].position =
               VAdd(before[1].position, VScale(before[1].velocity, duration))
        /\ (/\ before[1].acceleration = VZero
            /\ before[1].force_accumulator = VZero
            /\ before[1].damping = R(1)) => bodies[1].velocity = before[1].velocity

\* a moving body of finite mass, under an acceleration and a force, has been
\* integrated over a duration other than 1
C12_Witness ==
    /\ pc = "returned"
    /\ RGt(before[1].inverse_mass, R(0))
    /\ duration = Rat(1, 4)
    /\ before[1].damping = Rat(1, 2)
    /\ before[1].velocity = Vec(1, -2, 0)
    /\ before[1].acceleration # VZero
    /\ before[1].force_accumulator # VZero
    /\ bodies[1].position # before[1].position
    /\ bodies[1].velocity # before[1].velocity

(***************************************************************************)
(* C14: for a body with inverse_mass > 0 and damping 1, and a duration     *)
(* dt > 0, the velocity after integrate is                                 *)
(* velocity0 + (acceleration + force_accumulator0 * inverse_mass) * dt.    *)
(***************************************************************************)
C14_VelocityUndamped ==
    (/\ pc = "returned"
     /\ RGt(before[1].inverse_mass, R(0))
     /\ before[1].damping = R(1)
     /\ RGt(duration, R(0))) =>
        bodies[1].velocity =
            VAdd(before[1].velocity,
                 VScale(VAdd(before[1].acceleration,
                             VScale(before[1].force_accumulator,
                                    before[1].inverse_mass)),
                        duration))

(***************************************************************************)
(* C13: a Bungee or AnchoredBungee with spring_constant > 0 adds no force  *)
(* while the distance to the other end is <= rest_length; beyond it, it    *)
(* adds a force of magnitude spring_constant * (distance - rest_length),   *)
(* which is > 0, directed from the body toward the other end.              *)
(***************************************************************************)
C13_BungeeRestoring ==
    (pc = "bungee_applied" /\ RGt(force_generators[1].spring_constant, R(0))) =>
        LET g == force_generators[1]
            other == OtherEnd(g, before)
            toward == VSub(other, before[1].position)
            distance == Magnitude(toward)
            added == VSub(bodies[1].force_accumulator, before[1].force_accumulator)
            size == RMul(g.spring_constant, RSub(distance, g.rest_length))
        IN  IF RLe(distance, g.rest_length) THEN added = VZero
            ELSE /\ RGt(size, R(0))
                 /\ Magnitude(added) = size
                 /\ added = VScale(Normalize(toward), size)

(***************************************************************************)
(* C15: the contact resolved in an iteration of resolve_contacts is one    *)
(* whose separating velocity, computed from the bodies at the start of     *)
(* that iteration, is the largest of the batch: it is >= the separating    *)
(* velocity of every contact of the batch.                                 *)
(***************************************************************************)
C15_ResolvesLargestSeparatingVelocity ==
    (pc = "resolve" /\ resolutions >= 1) =>
        \A i \in 1..Len(contacts) :
            RLe(scanned[3][i], scanned[3][scanned[1] + 1])

(***************************************************************************)
(* C16: the cap on iterations applies to each call of resolve_contacts on  *)
(* a shared resolver with iterations > 0, however many calls were made     *)
(* before: iterations_used counts the resolutions of the running call, it  *)
(* is at most iterations, and at least one resolution has been made when   *)
(* the loop ends, in every call on a batch that held a contact requiring   *)
(* resolution.                                                             *)
(***************************************************************************)
C16_CapAppliesPerCall ==
    (/\ pc = "resolve"
     /\ resolver.iterations > 0
     /\ ~ScanPanics(contacts, before)
     /\ \E i \in 1..Len(contacts) :
           RGt(separating_velocity(contacts[i], before), R(0))) =>
        /\ resolutions <= resolver.iterations
        /\ resolver.iterations_used = resolutions
        /\ ~LoopContinues(resolver) => resolutions >= 1

====
